---- MODULE Spec2Model ----
(***************************************************************************)
(* Model of woodwork/material/node_creator.py: the node wrappers, the      *)
(* Frame bounding box, the relative positions (Below, OnTheRightSideOf,    *)
(* Location) and the size prediction (compute_width, compute_height).      *)
(*                                                                         *)
(* Lengths are fixed-point numbers in tenths of a unit (Fix(20) = 200), so *)
(* that 0.08 * widget_unit = 1.6 and the halves are integers; int() of the *)
(* source truncates such a number toward zero (IntTrunc).                  *)
(***************************************************************************)
EXTENDS Integers, Sequences, FiniteSets, TLC

VARIABLES
    node,       \* the host tree's nodes (bpy nodes), in creation order
    wrapper,    \* the Python wrapper of each node: its class and children
    last,       \* the construction call made last
    prev,       \* the construction call before it
    result,     \* what a size query made in this state returned
    calls,      \* number of construction calls made so far
    trees,      \* the node trees (Nodes, Group) of a graph under construction
    builder,    \* the shipped builder whose calls are being made, if any
    added,      \* the stops add_stop was called with, in call order
    tenonProperties,    \* context.scene.tenonProperties
    operator,   \* the TenonOperator: the face lengths it saw, what it returned
    mesh        \* the edited mesh: its active face, the tenons built on it

vars == <<node, wrapper, last, prev, result, calls, trees, builder, added,
          tenonProperties, operator, mesh>>

\* the state of the tenon operator (woodwork/tenon.py)
tenon_vars == <<tenonProperties, operator, mesh>>

\* what the calls on nodes and trees leave alone
elsewhere == <<builder, added, tenon_vars>>

\* ------------------------------------------------------------------ bounds

MaxCalls == 2

\* ---------------------------------------------------------------- constants

widget_unit == 20

\* lowest_x = 99999999999999999.0 and its negation: the start values of the
\* bounding box, scaled to the integer range of the checker (far beyond any
\* coordinate the bounded model reaches).
huge == 2000000000

Fix(x) == x * 10

IntTrunc(v) == IF v >= 0 THEN (v \div 10) * 10 ELSE -(((-v) \div 10) * 10)

\* ----------------------------------------------------------------- builders

\* The layout calls a builder makes, in the order it makes them; a node is
\* named by its place in the tree's creation order.
Call_create(node_type) ==
    [op |-> "create", type |-> node_type, node |-> 0, kind |-> "none",
     ref |-> 0, dist |-> 0, loc |-> <<0, 0>>]
Call_set_parent(n, parent) ==
    [op |-> "set_parent", type |-> "none", node |-> n, kind |-> "none",
     ref |-> parent, dist |-> 0, loc |-> <<0, 0>>]
Call_set_location(n, location) ==
    [op |-> "set_location", type |-> "none", node |-> n, kind |-> "none",
     ref |-> 0, dist |-> 0, loc |-> location]
Call_set_position(n, kind, relative_node, dist) ==
    [op |-> "set_position", type |-> "none", node |-> n, kind |-> kind,
     ref |-> relative_node, dist |-> dist, loc |-> <<0, 0>>]

\* WoodPatternBartek.add_distortion: the "Distortion" Frame (node 3) and its
\* six children
WoodPatternBartek_add_distortion ==
    <<Call_create("NodeFrame"),
      Call_set_position(3, "OnTheRightSideOf", 2, Fix(50)),
      Call_create("ShaderNodeTexNoise"),
      Call_set_parent(4, 3),
      Call_set_location(4, <<Fix(50), Fix(0)>>),
      Call_create("ShaderNodeTexNoise"),
      Call_set_parent(5, 3),
      Call_set_position(5, "Below", 4, Fix(50)),
      Call_create("ShaderNodeMixRGB"),
      Call_set_parent(6, 3),
      Call_set_position(6, "OnTheRightSideOf", 4, Fix(50)),
      Call_create("ShaderNodeMixRGB"),
      Call_set_parent(7, 3),
      Call_set_position(7, "OnTheRightSideOf", 5, Fix(50)),
      Call_create("ShaderNodeMixRGB"),
      Call_set_parent(8, 3),
      Call_set_position(8, "OnTheRightSideOf", 6, Fix(50)),
      Call_create("ShaderNodeMixRGB"),
      Call_set_parent(9, 3),
      Call_set_position(9, "OnTheRightSideOf", 7, Fix(50))>>

\* WoodPatternBartek.get_textures_color: the "Textures" Frame (node 11),
\* placed on the right of the Frame before it, and its six children
WoodPatternBartek_get_textures_color ==
    <<Call_create("NodeFrame"),
      Call_set_position(11, "OnTheRightSideOf", 3, Fix(50)),
      Call_create("ShaderNodeTexGradient"),
      Call_set_parent(12, 11),
      Call_set_location(12, <<Fix(50), Fix(0)>>),
      Call_create("ShaderNodeTexNoise"),
      Call_set_parent(13, 11),
      Call_set_position(13, "Below", 12, Fix(50)),
      Call_create("ShaderNodeTexNoise"),
      Call_set_parent(14, 11),
      Call_set_position(14, "Below", 13, Fix(50)),
      Call_create("ShaderNodeValToRGB"),
      Call_set_parent(15, 11),
      Call_set_position(15, "OnTheRightSideOf", 14, Fix(50)),
      Call_create("ShaderNodeMixRGB"),
      Call_set_parent(16, 11),
      Call_set_position(16, "OnTheRightSideOf", 13, Fix(50)),
      Call_create("ShaderNodeMixRGB"),
      Call_set_parent(17, 11),
      Call_set_position(17, "OnTheRightSideOf", 15, Fix(50))>>

\* WoodPatternBartek.get_rings_color: the Frame of the rings (node 18) and
\* its five children
WoodPatternBartek_get_rings_color ==
    <<Call_create("NodeFrame"),
      Call_set_position(18, "OnTheRightSideOf", 11, Fix(50)),
      Call_create("ShaderNodeRGBCurve"),
      Call_set_parent(19, 18),
      Call_set_location(19, <<Fix(50), Fix(0)>>),
      Call_create("ShaderNodeMath"),
      Call_set_parent(20, 18),
      Call_set_position(20, "Below", 19, Fix(50)),
      Call_create("ShaderNodeMath"),
      Call_set_parent(21, 18),
      Call_set_position(21, "OnTheRightSideOf", 19, Fix(50)),
      Call_create("ShaderNodeMath"),
      Call_set_parent(22, 18),
      Call_set_position(22, "OnTheRightSideOf", 21, Fix(50)),
      Call_create("ShaderNodeRGBCurve"),
      Call_set_parent(23, 18),
      Call_set_position(23, "OnTheRightSideOf", 22, Fix(50))>>

\* WoodPatternBartek.build with the reroute parented to the Frame it was put
\* below
WoodPatternBartek_build_reroute_in_frame ==
    <<Call_create("NodeGroupInput"),
      Call_set_location(1, <<Fix(0), Fix(0)>>),
      Call_create("ShaderNodeMixRGB"),
      Call_set_position(2, "OnTheRightSideOf", 1, Fix(100))>>
    \o WoodPatternBartek_add_distortion
    \o <<Call_create("NodeReroute"),
         Call_set_position(10, "Below", 3, Fix(50)),
         Call_set_parent(10, 3)>>
    \o WoodPatternBartek_get_textures_color
    \o WoodPatternBartek_get_rings_color
    \o <<Call_create("NodeGroupOutput"),
         Call_set_position(24, "OnTheRightSideOf", 18, Fix(100))>>

\* WoodPatternBartek.build: group input, the MixRGB on its right, the three
\* Frames one after the other, the reroute below the first, the group
\* output on the right of the last
WoodPatternBartek_build ==
    <<Call_create("NodeGroupInput"),
      Call_set_location(1, <<Fix(0), Fix(0)>>),
      Call_create("ShaderNodeMixRGB"),
      Call_set_position(2, "OnTheRightSideOf", 1, Fix(100))>>
    \o WoodPatternBartek_add_distortion
    \o <<Call_create("NodeReroute"),
         Call_set_position(10, "Below", 3, Fix(50))>>
    \o WoodPatternBartek_get_textures_color
    \o WoodPatternBartek_get_rings_color
    \o <<Call_create("NodeGroupOutput"),
         Call_set_position(24, "OnTheRightSideOf", 18, Fix(100))>>

\* Rays.build with add_distortion, get_angle, is_ray and cut_rays
Rays_build ==
    <<Call_create("NodeGroupInput"),
      Call_set_location(1, <<Fix(0), Fix(0)>>),
      Call_create("NodeFrame"),
      Call_set_position(2, "OnTheRightSideOf", 1, Fix(50)),
      Call_create("ShaderNodeTexNoise"),
      Call_set_parent(3, 2),
      Call_set_location(3, <<Fix(50), Fix(0)>>),
      Call_create("ShaderNodeMixRGB"),
      Call_set_parent(4, 2),
      Call_set_position(4, "OnTheRightSideOf", 3, Fix(50)),
      Call_create("ShaderNodeMixRGB"),
      Call_set_parent(5, 2),
      Call_set_position(5, "OnTheRightSideOf", 4, Fix(50)),
      Call_create("ShaderNodeSeparateXYZ"),
      Call_set_position(6, "Below", 2, Fix(50)),
      Call_create("ShaderNodeCombineXYZ"),
      Call_set_position(7, "OnTheRightSideOf", 6, Fix(50)),
      Call_create("ShaderNodeTexGradient"),
      Call_set_position(8, "OnTheRightSideOf", 7, Fix(50)),
      Call_create("NodeFrame"),
      Call_set_position(9, "Below", 6, Fix(50)),
      Call_create("ShaderNodeMath"),
      Call_set_parent(10, 9),
      Call_set_location(10, <<Fix(50), Fix(0)>>),
      Call_create("ShaderNodeMath"),
      Call_set_parent(11, 9),
      Call_set_position(11, "OnTheRightSideOf", 10, Fix(50)),
      Call_create("ShaderNodeMath"),
      Call_set_parent(12, 9),
      Call_set_position(12, "OnTheRightSideOf", 11, Fix(50)),
      Call_create("ShaderNodeMath"),
      Call_set_parent(13, 9),
      Call_set_position(13, "OnTheRightSideOf", 12, Fix(50)),
      Call_create("ShaderNodeMath"),
      Call_set_parent(14, 9),
      Call_set_position(14, "OnTheRightSideOf", 13, Fix(50)),
      Call_create("ShaderNodeMath"),
      Call_set_parent(15, 9),
      Call_set_position(15, "OnTheRightSideOf", 14, Fix(50)),
      Call_create("NodeFrame"),
      Call_set_position(16, "Below", 9, Fix(50)),
      Call_create("ShaderNodeTexMusgrave"),
      Call_set_parent(17, 16),
      Call_set_location(17, <<Fix(50), Fix(0)>>),
      Call_create("ShaderNodeMixRGB"),
      Call_set_parent(18, 16),
      Call_set_position(18, "OnTheRightSideOf", 17, Fix(50)),
      Call_create("NodeGroupOutput"),
      Call_set_position(19, "OnTheRightSideOf", 16, Fix(50))>>

\* Rays.create_angle_group
Rays_create_angle_group ==
    <<Call_create("NodeGroupInput"),
      Call_set_location(1, <<Fix(0), Fix(0)>>),
      Call_create("ShaderNodeSeparateXYZ"),
      Call_set_position(2, "OnTheRightSideOf", 1, Fix(50)),
      Call_create("NodeFrame"),
      Call_set_position(3, "OnTheRightSideOf", 2, Fix(50)),
      Call_create("ShaderNodeMath"),
      Call_set_parent(4, 3),
      Call_set_location(4, <<Fix(50), Fix(0)>>),
      Call_create("ShaderNodeMath"),
      Call_set_parent(5, 3),
      Call_set_position(5, "Below", 4, Fix(50)),
      Call_create("ShaderNodeMath"),
      Call_set_parent(6, 3),
      Call_set_position(6, "OnTheRightSideOf", 4, Fix(50)),
      Call_create("ShaderNodeMath"),
      Call_set_parent(7, 3),
      Call_set_position(7, "OnTheRightSideOf", 6, Fix(50)),
      Call_create("ShaderNodeMath"),
      Call_set_parent(8, 3),
      Call_set_position(8, "OnTheRightSideOf", 7, Fix(50)),
      Call_create("ShaderNodeMath"),
      Call_set_parent(9, 3),
      Call_set_position(9, "OnTheRightSideOf", 8, Fix(50)),
      Call_create("ShaderNodeMath"),
      Call_set_parent(10, 3),
      Call_set_position(10, "OnTheRightSideOf", 9, Fix(50)),
      Call_create("ShaderNodeMath"),
      Call_set_parent(11, 3),
      Call_set_position(11, "OnTheRightSideOf", 10, Fix(50)),
      Call_create("ShaderNodeMath"),
      Call_set_position(12, "OnTheRightSideOf", 3, Fix(50)),
      Call_create("ShaderNodeValue"),
      Call_set_position(13, "Below", 12, Fix(50)),
      Call_create("ShaderNodeMath"),
      Call_set_position(14, "OnTheRightSideOf", 13, Fix(50)),
      Call_create("ShaderNodeMath"),
      Call_set_position(15, "OnTheRightSideOf", 12, Fix(50)),
      Call_create("NodeGroupOutput"),
      Call_set_position(16, "OnTheRightSideOf", 15, Fix(50))>>

NoBuilder == "none"
Builders == {"WoodPatternBartek.build", "Rays.build", "Rays.create_angle_group"}

\* the calls of the builder that is running
Script ==
    CASE builder = "WoodPatternBartek.build" -> WoodPatternBartek_build
      [] builder = "Rays.build" -> Rays_build
      [] builder = "Rays.create_angle_group" -> Rays_create_angle_group
      [] OTHER -> <<>>

\* The construction calls a behaviour may make: a small number when the
\* caller is left open, the calls of the builder when one is running.
CallBudget == IF builder = NoBuilder THEN MaxCalls ELSE Len(Script)

\* the tenon operator is not in use
TenonIdle == tenonProperties = <<>> /\ operator = <<>> /\ mesh = <<>>

\* no builder is running, no stop was added
ElsewhereInit == builder = NoBuilder /\ added = <<>> /\ TenonIdle

\* ------------------------------------------------------------ type registry

\* the registry falling back to another variant than the generic Node
node_type_to_class_math_default(node_type) ==
    IF node_type = "NodeFrame" THEN "Frame" ELSE "Math"

node_type_to_class(node_type) ==
    CASE node_type = "NodeFrame" -> "Frame"
      [] node_type = "NodeReroute" -> "Reroute"
      [] node_type = "NodeGroupInput" -> "GroupInput"
      [] node_type = "ShaderNodeGroup" -> "GroupNode"
      [] node_type = "ShaderNodeTexCoord" -> "TextureCoordinate"
      [] node_type = "ShaderNodeObjectInfo" -> "ObjectInfo"
      [] node_type = "ShaderNodeMixRGB" -> "MixRGB"
      [] node_type = "ShaderNodeTexNoise" -> "NoiseTexture"
      [] node_type = "ShaderNodeTexGradient" -> "GradientTexture"
      [] node_type = "ShaderNodeTexMusgrave" -> "MusgraveTexture"
      [] node_type = "ShaderNodeTexVoronoi" -> "VoronoiTexture"
      [] node_type = "ShaderNodeValToRGB" -> "ColorRamp"
      [] node_type = "ShaderNodeRGBCurve" -> "RGBCurve"
      [] node_type = "ShaderNodeMath" -> "Math"
      [] node_type = "ShaderNodeSeparateRGB" -> "SeparateRGB"
      [] node_type = "ShaderNodeSeparateXYZ" -> "SeparateXYZ"
      [] node_type = "ShaderNodeCombineXYZ" -> "CombineXYZ"
      [] node_type = "ShaderNodeValue" -> "Value"
      [] OTHER -> "Node"

\* The tags Node.create is called with in the bounded model: a Frame, and
\* the tag the registry does not list (GroupOutput.create passes it).
CreateTags == {"NodeFrame", "NodeGroupOutput"}

\* Sockets a new host node of the type carries (all visible):
\* <<number of outputs, number of inputs>>.
HostSockets(node_type) ==
    CASE node_type = "NodeFrame" -> <<0, 0>>
      [] node_type = "ShaderNodeValToRGB" -> <<2, 1>>
      [] node_type = "ShaderNodeTexNoise" -> <<2, 4>>
      [] node_type = "ShaderNodeMixRGB" -> <<1, 3>>
      [] node_type = "NodeGroupOutput" -> <<0, 2>>
      [] node_type = "ShaderNodeGroup" -> <<0, 0>>
      [] OTHER -> <<1, 2>>

HostWidth(node_type) ==
    IF node_type = "NodeFrame" THEN Fix(150) ELSE Fix(140)

\* nodes.new(node_type): the host's new node.
HostNew(node_type) ==
    [type |-> node_type,
     location |-> <<0, 0>>,
     width |-> HostWidth(node_type),
     height |-> Fix(100),
     hide |-> FALSE,
     outputs |-> [i \in 1..HostSockets(node_type)[1] |-> FALSE],
     inputs |-> [i \in 1..HostSockets(node_type)[2] |-> FALSE],
     show_preview |-> FALSE,
     show_options |-> FALSE,
     parent |-> 0,
     node_tree |-> 0]

Ids == 1..Len(node)

\* type(n) is Frame
IsFrame(n) == wrapper[n].class = "Frame"

\* ---------------------------------------------------------- size prediction

\* A size query returns [ok |-> TRUE, v |-> size], or ok = FALSE when the
\* recursion through Frame children does not come back (a containment cycle:
\* the interpreter's recursion limit ends the call with an error).  The depth
\* of an acyclic containment is at most the number of nodes.
MaxDepth == Len(node) + 1

Returned(x) == [ok |-> TRUE, v |-> x]
Overflow == [ok |-> FALSE, v |-> 0]

get_location(n) == node[n].location
get_width(n) == node[n].width
get_height(n) == node[n].height

\* Node.compute_width
Node_compute_width(n) == get_width(n)

\* ColorRamp.compute_width
ColorRamp_compute_width(n) ==
    LET templateColorRamp_width == 10 * Fix(widget_unit)
    IN  IF templateColorRamp_width > get_width(n)
        THEN templateColorRamp_width
        ELSE get_width(n)

\* compute_buttons_y_space of each variant
compute_buttons_y_space(class) ==
    CASE class = "GroupNode" -> Fix(widget_unit)
      [] class = "MixRGB" -> Fix(widget_unit + widget_unit)
      [] class = "GradientTexture" -> Fix(widget_unit)
      [] class = "MusgraveTexture" -> Fix(widget_unit)
      [] class = "VoronoiTexture" -> Fix(widget_unit)
      [] class = "ColorRamp" -> Fix(5 + widget_unit + 2 + widget_unit + 65)
      [] class = "RGBCurve" ->
            Fix((widget_unit + 5) + (8 * widget_unit + 5) + (widget_unit + 5))
      [] class = "Math" -> Fix((widget_unit + 5) + (widget_unit + 5))
      [] OTHER -> 0

node_dy == Fix(widget_unit)
node_dys == Fix(widget_unit \div 2)
node_sockdy == (8 * Fix(widget_unit)) \div 100

\* the number of sockets of the list whose hide flag is not set
RECURSIVE CountVisible(_, _)
CountVisible(sockets, i) ==
    IF i > Len(sockets) THEN 0
    ELSE (IF sockets[i] THEN 0 ELSE 1) + CountVisible(sockets, i + 1)

\* for socket in sockets: if socket.hide: continue;
\*     dy = int(dy - node_dy); dy -= node_sockdy
RECURSIVE SocketRows(_, _, _)
SocketRows(dy, sockets, i) ==
    IF i > Len(sockets) THEN dy
    ELSE IF sockets[i] THEN SocketRows(dy, sockets, i + 1)
    ELSE SocketRows(IntTrunc(dy - node_dy) - node_sockdy, sockets, i + 1)

Max2(a, b) == IF a > b THEN a ELSE b

\* the collapsed branch counting every socket, hidden ones included
HiddenDy_counts_hidden(n) ==
    LET tot == Max2(Len(node[n].outputs), Len(node[n].inputs))
        hidden_rad0 == (75 * Fix(widget_unit)) \div 100
        hidden_rad == IF tot > 4 THEN hidden_rad0 + Fix(5) * (tot - 4)
                      ELSE hidden_rad0
    IN  get_location(n)[2] + hidden_rad - node_dy \div 2

\* Node.compute_height, the collapsed branch (node_bpy.hide): the value of dy
HiddenDy(n) ==
    LET totout == CountVisible(node[n].outputs, 1)
        totin == CountVisible(node[n].inputs, 1)
        tot == Max2(totout, totin)
        hidden_rad0 == (75 * Fix(widget_unit)) \div 100
        hidden_rad == IF tot > 4 THEN hidden_rad0 + Fix(5) * (tot - 4)
                      ELSE hidden_rad0
    IN  get_location(n)[2] + hidden_rad - node_dy \div 2

\* the expanded branch leaving the closing padding out whenever the preview or
\* the options are shown
ExpandedDy_closing_without_inputs_test(n) ==
    LET b == node[n]
        dy0 == b.location[2] - node_dy
        dy1 == IF Len(b.outputs) > 0 THEN dy0 - node_dys \div 2 ELSE dy0
        dy2 == SocketRows(dy1, b.outputs, 1) + node_sockdy
        buttons_y_space == compute_buttons_y_space(wrapper[n].class)
        dy3 == IF buttons_y_space > 0
               THEN dy2 - node_dys \div 2 - buttons_y_space - node_dys \div 2
               ELSE dy2
        dy4 == SocketRows(dy3, b.inputs, 1) + node_sockdy
        has_options_or_preview == b.show_preview \/ b.show_options
    IN  IF ~has_options_or_preview
        THEN dy4 - node_dys \div 2
        ELSE dy4

\* Node.compute_height, the expanded branch: the value of dy
ExpandedDy(n) ==
    LET b == node[n]
        dy0 == b.location[2] - node_dy
        dy1 == IF Len(b.outputs) > 0 THEN dy0 - node_dys \div 2 ELSE dy0
        dy2 == SocketRows(dy1, b.outputs, 1) + node_sockdy
        buttons_y_space == compute_buttons_y_space(wrapper[n].class)
        dy3 == IF buttons_y_space > 0
               THEN dy2 - node_dys \div 2 - buttons_y_space - node_dys \div 2
               ELSE dy2
        dy4 == SocketRows(dy3, b.inputs, 1) + node_sockdy
        has_options_or_preview == b.show_preview \/ b.show_options
    IN  IF Len(b.inputs) > 0 \/ ~has_options_or_preview
        THEN dy4 - node_dys \div 2
        ELSE dy4

\* Node.compute_height
Node_compute_height(n) ==
    get_location(n)[2] - (IF node[n].hide THEN HiddenDy(n) ELSE ExpandedDy(n))

margin == (15 * Fix(widget_unit)) \div 10

RECURSIVE compute_width(_, _)
RECURSIVE compute_height(_, _)
RECURSIVE WidthLoop(_, _, _, _, _)
RECURSIVE HeightLoop(_, _, _, _, _)

\* the loop of Frame.compute_width with the child's right edge taken at
\* child.x + margin, its width left out
RECURSIVE WidthLoop_no_child_width(_, _, _, _, _)
WidthLoop_no_child_width(children, i, lowest_x, highest_x, depth) ==
    IF i > Len(children) THEN Returned(highest_x - lowest_x)
    ELSE LET child == children[i]
             child_loc == get_location(child)
             child_x == child_loc[1] - margin
             low == IF child_x < lowest_x THEN child_x ELSE lowest_x
             child_width == compute_width(child, depth - 1)
             child_xmax == child_loc[1] + margin
             high == IF child_xmax > highest_x THEN child_xmax ELSE highest_x
         IN  IF ~child_width.ok THEN Overflow
             ELSE WidthLoop_no_child_width(children, i + 1, low, high, depth)

\* the loop of Frame.compute_width reaching the child's width through one
\* more call on the stack
RECURSIVE WidthLoop_through_wrapper(_, _, _, _, _)
WidthLoop_through_wrapper(children, i, lowest_x, highest_x, depth) ==
    IF i > Len(children) THEN Returned(highest_x - lowest_x)
    ELSE LET child == children[i]
             child_loc == get_location(child)
             child_x == child_loc[1] - margin
             low == IF child_x < lowest_x THEN child_x ELSE lowest_x
             child_width == IF depth < 2 THEN Overflow
                            ELSE compute_width(child, depth - 2)
             child_xmax == child_loc[1] + child_width.v + margin
             high == IF child_xmax > highest_x THEN child_xmax ELSE highest_x
         IN  IF ~child_width.ok THEN Overflow
             ELSE WidthLoop_through_wrapper(children, i + 1, low, high, depth)

\* Frame.compute_width: the loop over self.children, from child i on
WidthLoop(children, i, lowest_x, highest_x, depth) ==
    IF i > Len(children) THEN Returned(highest_x - lowest_x)
    ELSE LET child == children[i]
             child_loc == get_location(child)
             child_x == child_loc[1] - margin
             low == IF child_x < lowest_x THEN child_x ELSE lowest_x
             child_width == compute_width(child, depth - 1)
             child_xmax == child_loc[1] + child_width.v + margin
             high == IF child_xmax > highest_x THEN child_xmax ELSE highest_x
         IN  IF ~child_width.ok THEN Overflow
             ELSE WidthLoop(children, i + 1, low, high, depth)

\* Frame.compute_width measuring the box of the first child only
Frame_compute_width_first_child(n, depth) ==
    IF Len(wrapper[n].children) > 0
    THEN WidthLoop(<<wrapper[n].children[1]>>, 1, huge, -huge, depth)
    ELSE Returned(node[n].width)

\* Frame.compute_width answering with the width the host stored
Frame_compute_width_stored(n, depth) == Returned(node[n].width)

\* Frame.compute_width
Frame_compute_width(n, depth) ==
    IF Len(wrapper[n].children) > 0
    THEN WidthLoop(wrapper[n].children, 1, huge, -huge, depth)
    ELSE Returned(node[n].width)

\* the loop of Frame.compute_height with the child's height read from the
\* host (get_height) instead of child.compute_height()
RECURSIVE HeightLoop_stored_height(_, _, _, _, _)
HeightLoop_stored_height(children, i, lowest_y, highest_y, depth) ==
    IF i > Len(children) THEN Returned(highest_y - lowest_y)
    ELSE LET child == children[i]
             child_loc == get_location(child)
             child_y == child_loc[2] + margin
             high == IF child_y > highest_y THEN child_y ELSE highest_y
             child_ymax == child_loc[2] - get_height(child) - margin
             low == IF child_ymax < lowest_y THEN child_ymax ELSE lowest_y
         IN  HeightLoop_stored_height(children, i + 1, low, high, depth)

\* Frame.compute_height: the loop over self.children, from child i on
HeightLoop(children, i, lowest_y, highest_y, depth) ==
    IF i > Len(children) THEN Returned(highest_y - lowest_y)
    ELSE LET child == children[i]
             child_loc == get_location(child)
             child_y == child_loc[2] + margin
             high == IF child_y > highest_y THEN child_y ELSE highest_y
             child_height == compute_height(child, depth - 1)
             child_ymax == child_loc[2] - child_height.v - margin
             low == IF child_ymax < lowest_y THEN child_ymax ELSE lowest_y
         IN  IF ~child_height.ok THEN Overflow
             ELSE HeightLoop(children, i + 1, low, high, depth)

\* Frame.compute_height
Frame_compute_height(n, depth) ==
    IF Len(wrapper[n].children) > 0
    THEN HeightLoop(wrapper[n].children, 1, huge, -huge, depth)
    ELSE Returned(node[n].height)

\* n.compute_width(), dispatched on the wrapper's class
compute_width(n, depth) ==
    IF depth = 0 THEN Overflow
    ELSE CASE wrapper[n].class = "Frame" -> Frame_compute_width(n, depth)
           [] wrapper[n].class = "ColorRamp" ->
                Returned(ColorRamp_compute_width(n))
           [] OTHER -> Returned(Node_compute_width(n))

\* n.compute_height(), dispatched on the wrapper's class
compute_height(n, depth) ==
    IF depth = 0 THEN Overflow
    ELSE IF wrapper[n].class = "Frame" THEN Frame_compute_height(n, depth)
    ELSE Returned(Node_compute_height(n))

Width(n) == compute_width(n, MaxDepth)
Height(n) == compute_height(n, MaxDepth)

\* ------------------------------------------------------------------ state

NoCall == [op |-> "none", node |-> 0, ref |-> 0, dist |-> 0]
NoResult == [node |-> 0, width |-> 0, height |-> 0]

\* The tree as WoodPatternBartek.get_textures_color leaves it after
\*   frame = Frame.create(tree)
\*   noise = NoiseTexture.create(tree).set_parent(frame)
\*               .set_location((50.0, 0.0))
\*   ramp = ColorRamp.create(tree).set_parent(frame)
\*               .set_position(on_the_right_side_of(noise).with_distance(50.0))
TexturesNodes ==
    <<HostNew("NodeFrame"),
      [HostNew("ShaderNodeTexNoise") EXCEPT
          !.parent = 1, !.location = <<Fix(50), 0>>],
      [HostNew("ShaderNodeValToRGB") EXCEPT
          !.parent = 1,
          !.location = <<Fix(50) + HostWidth("ShaderNodeTexNoise") + Fix(50),
                         0>>]>>

TexturesWrappers ==
    <<[class |-> "Frame", children |-> <<2, 3>>],
      [class |-> "NoiseTexture", children |-> <<>>],
      [class |-> "ColorRamp", children |-> <<>>]>>

\* The tree of these nodes, with the link from the noise texture's colour to
\* the ramp's factor.
TexturesTrees ==
    <<[group |-> TRUE, nodes |-> {1, 2, 3},
       links |-> {<<[node |-> 2, side |-> "out", index |-> 1],
                    [node |-> 3, side |-> "in", index |-> 1]>>},
       inputs |-> <<>>, outputs |-> <<>>]>>

\* Construction starts from an empty tree, or continues the textures frame.
Init ==
    /\ \/ node = <<>> /\ wrapper = <<>> /\ trees = <<>>
       \/ node = TexturesNodes /\ wrapper = TexturesWrappers
          /\ trees = TexturesTrees
    /\ last = NoCall
    /\ prev = NoCall
    /\ result = NoResult
    /\ calls = 0
    /\ ElsewhereInit

\* Node.create(tree, node_type)
Create(node_type) ==
    /\ calls < CallBudget
    /\ node' = Append(node, HostNew(node_type))
    /\ wrapper' = Append(wrapper, [class |-> node_type_to_class(node_type),
                                   children |-> <<>>])
    /\ last' = [op |-> "create", node |-> Len(node) + 1, ref |-> 0, dist |-> 0]
    /\ prev' = last
    /\ calls' = calls + 1
    /\ result' = NoResult
    /\ UNCHANGED <<trees, elsewhere>>

\* ---------------------------------------------------------------- positions

\* Below(relative_node), OnTheRightSideOf(relative_node): distance 0.0
Below(relative_node) ==
    [kind |-> "Below", relative_node |-> relative_node, distance |-> 0,
     location |-> <<0, 0>>]
OnTheRightSideOf(relative_node) ==
    [kind |-> "OnTheRightSideOf", relative_node |-> relative_node,
     distance |-> 0, location |-> <<0, 0>>]
Location(location) ==
    [kind |-> "Location", relative_node |-> 0, distance |-> 0,
     location |-> location]

\* position.with_distance(dist)
with_distance(position, dist) == [position EXCEPT !.distance = dist]

\* Below.set_node_position with the distance left out
Below_ignores_distance(position) ==
    LET location == get_location(position.relative_node)
        computed_height == Height(position.relative_node)
    IN  IF computed_height.ok
        THEN Returned(<<location[1], location[2] - computed_height.v>>)
        ELSE Overflow

\* Below.set_node_position: the location handed to node.set_location
Below_set_node_position(position) ==
    LET location == get_location(position.relative_node)
        computed_height == Height(position.relative_node)
    IN  IF computed_height.ok
        THEN Returned(<<location[1],
                        location[2] - computed_height.v - position.distance>>)
        ELSE Overflow

\* OnTheRightSideOf.set_node_position with the width read from the host
\* (get_width) instead of compute_width()
OnTheRightSideOf_stored_width(position) ==
    LET ref == get_location(position.relative_node)
    IN  Returned(<<ref[1] + get_width(position.relative_node)
                       + position.distance,
                   ref[2]>>)

\* OnTheRightSideOf.set_node_position with the reference's width left out
OnTheRightSideOf_left_edge(position) ==
    LET ref == get_location(position.relative_node)
        computed_width == Width(position.relative_node)
    IN  IF computed_width.ok
        THEN Returned(<<ref[1] + position.distance, ref[2]>>)
        ELSE Overflow

\* OnTheRightSideOf.set_node_position measuring the Frame the reference is in
\* instead of the reference
OnTheRightSideOf_frame_width(position) ==
    LET ref == get_location(position.relative_node)
        parent == node[position.relative_node].parent
        computed_width == IF parent # 0 /\ IsFrame(parent)
                          THEN Width(parent)
                          ELSE Width(position.relative_node)
    IN  IF computed_width.ok
        THEN Returned(<<ref[1] + computed_width.v + position.distance,
                        ref[2]>>)
        ELSE Overflow

\* OnTheRightSideOf.set_node_position: the location handed to set_location
OnTheRightSideOf_set_node_position(position) ==
    LET ref == get_location(position.relative_node)
        computed_width == Width(position.relative_node)
    IN  IF computed_width.ok
        THEN Returned(<<ref[1] + computed_width.v + position.distance,
                        ref[2]>>)
        ELSE Overflow

\* Location.set_node_position
Location_set_node_position(position) == Returned(position.location)

\* position.set_node_position(node), dispatched on the position's class
set_node_position(position) ==
    CASE position.kind = "Below" -> Below_set_node_position(position)
      [] position.kind = "OnTheRightSideOf" ->
            OnTheRightSideOf_set_node_position(position)
      [] OTHER -> Location_set_node_position(position)

\* The arguments the calls are made with.
Locations == {<<Fix(10), -Fix(40)>>}
Distances == {Fix(50)}

Positions ==
    {Location(l) : l \in Locations}
    \cup {Below(r) : r \in Ids}
    \cup {with_distance(Below(r), d) : r \in Ids, d \in Distances}
    \cup {OnTheRightSideOf(r) : r \in Ids}
    \cup {with_distance(OnTheRightSideOf(r), d) : r \in Ids, d \in Distances}

\* --------------------------------------------------------------- operations

\* Frame.set_child(child): the children of parent afterwards
set_child(parent, child) == Append(wrapper[parent].children, child)

\* Node.set_parent(parent)
set_parent(n, parent) ==
    /\ calls < CallBudget
    /\ wrapper' = IF IsFrame(parent)
                  THEN [wrapper EXCEPT ![parent].children = set_child(parent, n)]
                  ELSE wrapper
    /\ node' = [node EXCEPT ![n].parent = parent]
    /\ last' = [op |-> "set_parent", node |-> n, ref |-> parent, dist |-> 0]
    /\ prev' = last
    /\ calls' = calls + 1
    /\ result' = NoResult
    /\ UNCHANGED <<trees, elsewhere>>

\* set_location moving the children of a Frame along with it
set_location_drags_children(n, location) ==
    /\ calls < CallBudget
    /\ node' = [i \in DOMAIN node |->
                  IF i = n THEN [node[i] EXCEPT !.location = location]
                  ELSE IF i \in {wrapper[n].children[k] :
                                    k \in DOMAIN wrapper[n].children}
                  THEN [node[i] EXCEPT !.location =
                          <<node[i].location[1] + location[1]
                                - node[n].location[1],
                            node[i].location[2] + location[2]
                                - node[n].location[2]>>]
                  ELSE node[i]]
    /\ last' = [op |-> "set_location", node |-> n, ref |-> 0, dist |-> 0]
    /\ prev' = last
    /\ calls' = calls + 1
    /\ result' = NoResult
    /\ UNCHANGED wrapper
    /\ UNCHANGED <<trees, elsewhere>>

\* Node.set_location(location)
set_location(n, location) ==
    /\ calls < CallBudget
    /\ node' = [node EXCEPT ![n].location = location]
    /\ last' = [op |-> "set_location", node |-> n, ref |-> 0, dist |-> 0]
    /\ prev' = last
    /\ calls' = calls + 1
    /\ result' = NoResult
    /\ UNCHANGED wrapper
    /\ UNCHANGED <<trees, elsewhere>>

\* set_position handing the computed location to the reference node
set_position_moves_reference(n, position) ==
    /\ calls < CallBudget
    /\ set_node_position(position).ok
    /\ node' = IF position.kind = "Location"
               THEN [node EXCEPT ![n].location = set_node_position(position).v]
               ELSE [node EXCEPT ![position.relative_node].location =
                                    set_node_position(position).v]
    /\ last' = [op |-> position.kind, node |-> n,
                ref |-> position.relative_node, dist |-> position.distance]
    /\ prev' = last
    /\ calls' = calls + 1
    /\ result' = NoResult
    /\ UNCHANGED wrapper
    /\ UNCHANGED <<trees, elsewhere>>

\* Node.set_position(position): position.set_node_position(self).  When the
\* size query of the reference does not come back, the error leaves the call
\* before set_location and nothing changes.
set_position(n, position) ==
    /\ calls < CallBudget
    /\ set_node_position(position).ok
    /\ node' = [node EXCEPT ![n].location = set_node_position(position).v]
    /\ last' = [op |-> position.kind, node |-> n,
                ref |-> position.relative_node, dist |-> position.distance]
    /\ prev' = last
    /\ calls' = calls + 1
    /\ result' = NoResult
    /\ UNCHANGED wrapper
    /\ UNCHANGED <<trees, elsewhere>>

\* The host collapses or expands a node (node_bpy.hide, read by
\* compute_height).
HostSetHide(n) ==
    /\ calls < CallBudget
    /\ node' = [node EXCEPT ![n].hide = ~node[n].hide]
    /\ last' = [op |-> "hide", node |-> n, ref |-> 0, dist |-> 0]
    /\ prev' = last
    /\ calls' = calls + 1
    /\ result' = NoResult
    /\ UNCHANGED wrapper
    /\ UNCHANGED <<trees, elsewhere>>

\* A caller asks n for its size: n.compute_width(), n.compute_height()
Query(n) ==
    /\ Width(n).ok /\ Height(n).ok
    /\ result' = [node |-> n, width |-> Width(n).v, height |-> Height(n).v]
    /\ UNCHANGED <<node, wrapper, last, prev, calls>>
    /\ UNCHANGED <<trees, elsewhere>>

Next ==
    \/ \E t \in CreateTags : Create(t)
    \/ \E n \in Ids, p \in Ids : (p # n \/ IsFrame(p)) /\ set_parent(n, p)
    \/ \E n \in Ids, l \in Locations : set_location(n, l)
    \/ \E n \in Ids, p \in Positions :
          (p.kind = "Location" \/ p.relative_node # n) /\ set_position(n, p)
    \/ \E n \in Ids : HostSetHide(n)
    \/ \E n \in Ids : IsFrame(n) /\ Query(n)

Spec == Init /\ [][Next]_vars

\* ------------------------------------------------- the shapes of one node

\* The size prediction reads what the host holds for a node: its sockets,
\* their hide flags and the collapsed flag.  ShapeSpec starts from two nodes
\* of the generic class with any number of visible sockets and lets the host
\* hide and show sockets and collapse and expand the nodes.
MaxOutputs == 6
MaxInputs == 2

ShapeNode(outputs, inputs) ==
    [HostNew("NodeGroupOutput") EXCEPT
        !.outputs = [i \in 1..outputs |-> FALSE],
        !.inputs = [i \in 1..inputs |-> FALSE]]

ShapeInit ==
    /\ \E o1 \in 0..MaxOutputs, i1 \in 0..MaxInputs,
          o2 \in 0..MaxOutputs, i2 \in 0..MaxInputs :
            node = <<ShapeNode(o1, i1), ShapeNode(o2, i2)>>
    /\ wrapper = [n \in 1..2 |->
                    [class |-> node_type_to_class("NodeGroupOutput"),
                     children |-> <<>>]]
    /\ last = NoCall
    /\ prev = NoCall
    /\ result = NoResult
    /\ calls = 0
    /\ trees = <<>>
    /\ ElsewhereInit

NoneHidden(sockets) == \A i \in DOMAIN sockets : ~sockets[i]

\* The host hides output i of n (one hidden socket per list at a time) or
\* shows it again.
ShapeHideOutput(n, i) ==
    /\ node[n].outputs[i] \/ NoneHidden(node[n].outputs)
    /\ node' = [node EXCEPT ![n].outputs[i] = ~node[n].outputs[i]]
    /\ result' = NoResult
    /\ UNCHANGED <<wrapper, last, prev, calls>>
    /\ UNCHANGED <<trees, elsewhere>>

\* The host hides input i of n, or shows it again.
ShapeHideInput(n, i) ==
    /\ node[n].inputs[i] \/ NoneHidden(node[n].inputs)
    /\ node' = [node EXCEPT ![n].inputs[i] = ~node[n].inputs[i]]
    /\ result' = NoResult
    /\ UNCHANGED <<wrapper, last, prev, calls>>
    /\ UNCHANGED <<trees, elsewhere>>

\* The host collapses or expands n.
ShapeSetHide(n) ==
    /\ node' = [node EXCEPT ![n].hide = ~node[n].hide]
    /\ result' = NoResult
    /\ UNCHANGED <<wrapper, last, prev, calls>>
    /\ UNCHANGED <<trees, elsewhere>>

ShapeNext ==
    \/ \E n \in Ids : \E i \in DOMAIN node[n].outputs : ShapeHideOutput(n, i)
    \/ \E n \in Ids : \E i \in DOMAIN node[n].inputs : ShapeHideInput(n, i)
    \/ \E n \in Ids : ShapeSetHide(n)
    \/ \E n \in Ids : Query(n)

ShapeSpec == ShapeInit /\ [][ShapeNext]_vars

\* ------------------------------------------------- one node, every shape

\* The variants a shape is drawn from: the generic Node (no parameter rows),
\* GroupNode (one row) and ColorRamp (its template; its own compute_width).
HeightTags == {"NodeGroupOutput", "ShaderNodeGroup", "ShaderNodeValToRGB"}

\* The heights a node is put at: below, on, just above and far above the
\* x axis.
HeightYs == {-Fix(300), 0, Fix(50), Fix(300)}

HeightNode(node_type, outputs, inputs, y) ==
    [HostNew(node_type) EXCEPT
        !.outputs = [i \in 1..outputs |-> FALSE],
        !.inputs = [i \in 1..inputs |-> FALSE],
        !.location = <<0, y>>]

HeightInit ==
    /\ \E t \in HeightTags, o \in 0..MaxOutputs, i \in 0..MaxInputs,
          y \in HeightYs :
            /\ node = <<HeightNode(t, o, i, y)>>
            /\ wrapper = <<[class |-> node_type_to_class(t),
                            children |-> <<>>]>>
    /\ last = NoCall
    /\ prev = NoCall
    /\ result = NoResult
    /\ calls = 0
    /\ trees = <<>>
    /\ ElsewhereInit

\* The host shows or removes the preview of n.
HostSetPreview(n) ==
    /\ node' = [node EXCEPT ![n].show_preview = ~node[n].show_preview]
    /\ result' = NoResult
    /\ UNCHANGED <<wrapper, last, prev, calls>>
    /\ UNCHANGED <<trees, elsewhere>>

\* The host shows or removes the options of n.
HostSetOptions(n) ==
    /\ node' = [node EXCEPT ![n].show_options = ~node[n].show_options]
    /\ result' = NoResult
    /\ UNCHANGED <<wrapper, last, prev, calls>>
    /\ UNCHANGED <<trees, elsewhere>>

\* n is moved up or down: node.location = (x, y)
HeightMove(n, y) ==
    /\ y # node[n].location[2]
    /\ node' = [node EXCEPT ![n].location = <<node[n].location[1], y>>]
    /\ result' = NoResult
    /\ UNCHANGED <<wrapper, last, prev, calls>>
    /\ UNCHANGED <<trees, elsewhere>>

HeightNext ==
    \/ \E n \in Ids : \E i \in DOMAIN node[n].outputs : ShapeHideOutput(n, i)
    \/ \E n \in Ids : \E i \in DOMAIN node[n].inputs : ShapeHideInput(n, i)
    \/ \E n \in Ids : ShapeSetHide(n)
    \/ \E n \in Ids : HostSetPreview(n)
    \/ \E n \in Ids : HostSetOptions(n)
    \/ \E n \in Ids, y \in HeightYs : HeightMove(n, y)
    \/ \E n \in Ids : Query(n)

HeightSpec == HeightInit /\ [][HeightNext]_vars

\* ------------------------------------------------------ graphs and groups

\* A node tree of the host (Nodes, Group): the nodes created in it, its
\* links, and its interface, the declared inputs and outputs of a Group.
TreeIds == 1..Len(trees)

\* Socket(bpy_socket): output or input number index of node n
Socket(n, side, index) == [node |-> n, side |-> side, index |-> index]

\* node.outputs / node.inputs as the host shows them: a group node carries
\* the interface of the tree assigned to it, in its order
HostOutputs(n) ==
    IF node[n].node_tree = 0 THEN <<>> ELSE trees[node[n].node_tree].outputs
HostInputs(n) ==
    IF node[n].node_tree = 0 THEN <<>> ELSE trees[node[n].node_tree].inputs

\* collection[key] of the host: the first item of that name (0: KeyError)
HostLookup(collection, key) ==
    IF \E i \in DOMAIN collection : collection[i].name = key
    THEN CHOOSE i \in DOMAIN collection :
            /\ collection[i].name = key
            /\ \A j \in DOMAIN collection : collection[j].name = key => i <= j
    ELSE 0

\* Node.get_output(key), Node.get_input(key) on a group node
get_output(n, key) ==
    IF HostLookup(HostOutputs(n), key) = 0 THEN Overflow
    ELSE Returned(Socket(n, "out", HostLookup(HostOutputs(n), key)))
get_input(n, key) ==
    IF HostLookup(HostInputs(n), key) = 0 THEN Overflow
    ELSE Returned(Socket(n, "in", HostLookup(HostInputs(n), key)))

\* the host gives every group node that shows tree g one more socket
HostGrowGroupNodes(g, side) ==
    [i \in DOMAIN node |->
        IF node[i].node_tree # g THEN node[i]
        ELSE IF side = "in"
             THEN [node[i] EXCEPT !.inputs = Append(@, FALSE)]
             ELSE [node[i] EXCEPT !.outputs = Append(@, FALSE)]]

\* Group.set_input(input_name, input_type, input_value)
set_input(g, input_name, input_type, input_value) ==
    /\ calls < CallBudget
    /\ trees' = [trees EXCEPT ![g].inputs =
                    Append(@, [name |-> input_name, type |-> input_type,
                               default_value |-> input_value])]
    /\ node' = HostGrowGroupNodes(g, "in")
    /\ last' = [op |-> "set_input", node |-> 0, ref |-> g, dist |-> 0]
    /\ prev' = last
    /\ calls' = calls + 1
    /\ result' = NoResult
    /\ UNCHANGED <<wrapper, elsewhere>>

\* set_output adding the declaration to the inputs of the group
set_output_declares_input(g, output_name, output_type, output_value) ==
    /\ calls < CallBudget
    /\ trees' = [trees EXCEPT ![g].inputs =
                    Append(@, [name |-> output_name, type |-> output_type,
                               default_value |-> output_value])]
    /\ node' = HostGrowGroupNodes(g, "in")
    /\ last' = [op |-> "set_output", node |-> 0, ref |-> g, dist |-> 0]
    /\ prev' = last
    /\ calls' = calls + 1
    /\ result' = NoResult
    /\ UNCHANGED <<wrapper, elsewhere>>

\* Group.set_output(output_name, output_type, output_value)
set_output(g, output_name, output_type, output_value) ==
    /\ calls < CallBudget
    /\ trees' = [trees EXCEPT ![g].outputs =
                    Append(@, [name |-> output_name, type |-> output_type,
                               default_value |-> output_value])]
    /\ node' = HostGrowGroupNodes(g, "out")
    /\ last' = [op |-> "set_output", node |-> 0, ref |-> g, dist |-> 0]
    /\ prev' = last
    /\ calls' = calls + 1
    /\ result' = NoResult
    /\ UNCHANGED <<wrapper, elsewhere>>

\* GroupNode.set_node_tree(nodes): the host gives the node the sockets of
\* the tree's interface
set_node_tree(n, g) ==
    /\ calls < CallBudget
    /\ wrapper[n].class = "GroupNode"
    /\ node' = [node EXCEPT
                  ![n].node_tree = g,
                  ![n].inputs = [i \in DOMAIN trees[g].inputs |-> FALSE],
                  ![n].outputs = [i \in DOMAIN trees[g].outputs |-> FALSE]]
    /\ last' = [op |-> "set_node_tree", node |-> n, ref |-> g, dist |-> 0]
    /\ prev' = last
    /\ calls' = calls + 1
    /\ result' = NoResult
    /\ UNCHANGED <<wrapper, trees, elsewhere>>

\* What links.new of the host does with sockets of nodes that are not both
\* in its tree is not the engine's: it records the link, drops the call
\* without a word, or raises an error of its own.
HostLinks == {"linked", "ignored", "raised"}

\* both sockets belong to nodes created in tree t
SameGraph(t, output_socket, input_socket) ==
    output_socket.node \in trees[t].nodes /\ input_socket.node \in trees[t].nodes

\* Nodes.link(output_socket, input_socket) on tree t:
\* self.node_tree.links.new(...), nothing else
link(t, output_socket, input_socket, host) ==
    /\ calls < CallBudget
    /\ SameGraph(t, output_socket, input_socket) => host = "linked"
    /\ trees' = IF host = "linked"
                THEN [trees EXCEPT ![t].links =
                        @ \cup {<<output_socket, input_socket>>}]
                ELSE trees
    /\ last' = [op |-> IF host = "raised" THEN "link_raised" ELSE "link",
                node |-> output_socket.node, ref |-> input_socket.node,
                dist |-> 0]
    /\ prev' = last
    /\ calls' = calls + 1
    /\ result' = NoResult
    /\ UNCHANGED <<node, wrapper, elsewhere>>

\* A new tree of the host: bpy.data.node_groups.new for a Group.
NewTree(is_group) ==
    [group |-> is_group, nodes |-> {}, links |-> {},
     inputs |-> <<>>, outputs |-> <<>>]

GroupIds == {t \in TreeIds : trees[t].group}

\* The declarations the builders make: set_vector_input, set_color_output
\* and the like pass the name with the socket type; the defaults stand for
\* two different vectors or colours.
Declarations ==
    {[name |-> "Vector", type |-> "NodeSocketVector"],
     [name |-> "Color", type |-> "NodeSocketColor"]}
DefaultValues == {0, 1}

Declared(name, type, value) ==
    [name |-> name, type |-> type, default_value |-> value]

\* The material's tree holds a group node without a tree yet and a Math
\* node; a Group holds a Math node and has none or one declared input and
\* output.
GraphNodes ==
    <<HostNew("ShaderNodeGroup"), HostNew("ShaderNodeMath"),
      HostNew("ShaderNodeMath")>>

GraphInit ==
    /\ node = GraphNodes
    /\ wrapper = [n \in 1..3 |->
                    [class |-> node_type_to_class(GraphNodes[n].type),
                     children |-> <<>>]]
    /\ \E inputs \in {<<>>, <<Declared("Vector", "NodeSocketVector", 0)>>},
          outputs \in {<<>>, <<Declared("Color", "NodeSocketColor", 1)>>} :
            trees = <<[NewTree(FALSE) EXCEPT !.nodes = {1, 2}],
                      [NewTree(TRUE) EXCEPT !.nodes = {3},
                                            !.inputs = inputs,
                                            !.outputs = outputs]>>
    /\ last = NoCall
    /\ prev = NoCall
    /\ result = NoResult
    /\ calls = 0
    /\ ElsewhereInit

\* The sockets link is called with: the first output and the first input of
\* a node, and every socket of a group node.
OutputSockets ==
    UNION {{Socket(n, "out", i) : i \in {j \in DOMAIN node[n].outputs :
                j = 1 \/ wrapper[n].class = "GroupNode"}} : n \in Ids}
InputSockets ==
    UNION {{Socket(n, "in", i) : i \in {j \in DOMAIN node[n].inputs :
                j = 1 \/ wrapper[n].class = "GroupNode"}} : n \in Ids}

GraphNext ==
    \/ \E g \in GroupIds, d \in Declarations, v \in DefaultValues :
          set_input(g, d.name, d.type, v)
    \/ \E g \in GroupIds, d \in Declarations, v \in DefaultValues :
          set_output(g, d.name, d.type, v)
    \/ \E n \in Ids, g \in GroupIds : set_node_tree(n, g)
    \/ \E t \in TreeIds, a \in OutputSockets, b \in InputSockets,
          host \in HostLinks : a.node # b.node /\ link(t, a, b, host)

GraphSpec == GraphInit /\ [][GraphNext]_vars

\* ------------------------------------------------- the builders' sequences

\* A builder starts on the empty tree of its new Group.
BuildInit ==
    /\ node = <<>>
    /\ wrapper = <<>>
    /\ last = NoCall
    /\ prev = NoCall
    /\ result = NoResult
    /\ calls = 0
    /\ trees = <<>>
    /\ builder \in Builders
    /\ added = <<>>
    /\ TenonIdle

\* the call the builder makes next
Instruction == Script[calls + 1]

Running == builder # NoBuilder /\ calls < Len(Script)

BuildCreate ==
    /\ Running /\ Instruction.op = "create"
    /\ Create(Instruction.type)

BuildSetParent ==
    /\ Running /\ Instruction.op = "set_parent"
    /\ set_parent(Instruction.node, Instruction.ref)

BuildSetLocation ==
    /\ Running /\ Instruction.op = "set_location"
    /\ set_location(Instruction.node, Instruction.loc)

BuildSetPosition ==
    /\ Running /\ Instruction.op = "set_position"
    /\ set_position(Instruction.node,
                    [kind |-> Instruction.kind,
                     relative_node |-> Instruction.ref,
                     distance |-> Instruction.dist,
                     location |-> <<0, 0>>])

BuildNext ==
    \/ BuildCreate
    \/ BuildSetParent
    \/ BuildSetLocation
    \/ BuildSetPosition

BuildSpec == BuildInit /\ [][BuildNext]_vars

\* ------------------------------------------------------------ the color ramp

MaxStops == 3

\* Positions in thousandths and colours (r, g, b, a) the builders pass to
\* add_stop.
StopPositions == {0, 456, 1000}
StopColors == {<<0, 0, 0, 1>>, <<1, 1, 1, 1>>}

\* node.color_ramp.elements of a new host node: black at 0.0, white at 1.0
HostRampDefault ==
    <<[position |-> 0, color |-> <<0, 0, 0, 1>>],
      [position |-> 1000, color |-> <<1, 1, 1, 1>>]>>

\* elements.new(position) of the host followed by element.color = color: the
\* host keeps the elements ordered by position
RECURSIVE HostElementsNew(_, _, _)
HostElementsNew(elements, position, color) ==
    IF elements = <<>> \/ position < Head(elements).position
    THEN <<[position |-> position, color |-> color]>> \o elements
    ELSE <<Head(elements)>> \o HostElementsNew(Tail(elements), position, color)

\* ColorRamp.create(tree): the wrapper starts with stop_index = 0 on the
\* host's new node
RampInit ==
    /\ node = <<HostNew("ShaderNodeValToRGB")
                    @@ [color_ramp |-> [elements |-> HostRampDefault]]>>
    /\ wrapper = <<[class |-> node_type_to_class("ShaderNodeValToRGB"),
                    children |-> <<>>, stop_index |-> 0]>>
    /\ last = NoCall
    /\ prev = NoCall
    /\ result = NoResult
    /\ calls = 0
    /\ trees = <<>>
    /\ builder = NoBuilder
    /\ added = <<>>
    /\ TenonIdle

\* add_stop calling elements.new for the first stop as well
add_stop_keeps_defaults(n, position, color) ==
    /\ calls < MaxStops
    /\ node' = [node EXCEPT ![n].color_ramp.elements =
                    HostElementsNew(@, position, color)]
    /\ wrapper' = [wrapper EXCEPT ![n].stop_index = @ + 1]
    /\ added' = Append(added, [position |-> position, color |-> color])
    /\ last' = [op |-> "add_stop", node |-> n, ref |-> 0, dist |-> 0]
    /\ prev' = last
    /\ calls' = calls + 1
    /\ result' = NoResult
    /\ UNCHANGED <<trees, builder, tenon_vars>>

\* ColorRamp.add_stop(position, color)
add_stop(n, position, color) ==
    /\ calls < MaxStops
    /\ LET elements == node[n].color_ramp.elements
       IN  node' = [node EXCEPT ![n].color_ramp.elements =
                      IF wrapper[n].stop_index = 0
                      THEN <<[Tail(elements)[1] EXCEPT
                                !.position = position, !.color = color]>>
                           \o Tail(Tail(elements))
                      ELSE HostElementsNew(elements, position, color)]
    /\ wrapper' = [wrapper EXCEPT ![n].stop_index = @ + 1]
    /\ added' = Append(added, [position |-> position, color |-> color])
    /\ last' = [op |-> "add_stop", node |-> n, ref |-> 0, dist |-> 0]
    /\ prev' = last
    /\ calls' = calls + 1
    /\ result' = NoResult
    /\ UNCHANGED <<trees, builder, tenon_vars>>

RampNext ==
    \E n \in Ids, position \in StopPositions, color \in StopColors :
        add_stop(n, position, color)

RampSpec == RampInit /\ [][RampNext]_vars

\* -------------------------------------------------------- the tenon operator

MaxRuns == 2

\* Lengths are whole numbers of a unit finer than the tolerance of
\* nearly_equal; a percentage p stands for p / 60, so that the thirds and
\* halves of the source are whole.
Times(length, percentage) == (length * percentage) \div 60
Ratio(value, length) == (value * 60) \div length

\* -1.0: the value of a length nobody has set yet
Unset == -1

\* nearly_equal: the two lengths differ by no more than the tolerance, one
\* unit of the model
nearly_equal(a, b) == a - b <= 1 /\ b - a <= 1

\* bm.faces.active: no face (None), or a face by what the checks and
\* FaceToBeTransformed.extract_features read from it
None ==
    [verts |-> 0, planar |-> FALSE, rectangular |-> FALSE,
     shortest_length |-> 0, longest_length |-> 0]
Faces ==
    {None,
     [verts |-> 5, planar |-> TRUE, rectangular |-> FALSE,
      shortest_length |-> 60, longest_length |-> 120],
     [verts |-> 4, planar |-> FALSE, rectangular |-> TRUE,
      shortest_length |-> 60, longest_length |-> 120],
     [verts |-> 4, planar |-> TRUE, rectangular |-> FALSE,
      shortest_length |-> 60, longest_length |-> 120],
     [verts |-> 4, planar |-> TRUE, rectangular |-> TRUE,
      shortest_length |-> 60, longest_length |-> 120]}

\* TenonOperator.__check_face
check_face(face) ==
    IF face = None THEN FALSE
    ELSE IF face.verts > 4 THEN FALSE
    ELSE IF ~face.planar THEN FALSE
    ELSE IF ~face.rectangular THEN FALSE
    ELSE TRUE

\* execute, "Init default values, look if face has changed too"
InitDefaults(properties, face) ==
    LET t == properties.thickness_properties
        h == properties.height_properties
        t1 == IF \/ t.value = Unset
                 \/ ~nearly_equal(face.shortest_length, operator.shortest_length)
              THEN [t EXCEPT !.value = face.shortest_length \div 3,
                             !.percentage = 20, !.centered = TRUE]
              ELSE t
        h1 == IF \/ h.value = Unset
                 \/ ~nearly_equal(face.longest_length, operator.longest_length)
              THEN [h EXCEPT !.value = (face.longest_length * 2) \div 3,
                             !.percentage = 40, !.centered = TRUE]
              ELSE h
        reinit == \/ properties.depth_value = Unset
                  \/ ~nearly_equal(face.longest_length, operator.longest_length)
        depth_value == IF reinit THEN face.shortest_length
                       ELSE properties.depth_value
        h2 == IF reinit
              THEN [h1 EXCEPT
                      !.haunch_first_side.depth_value = depth_value \div 3,
                      !.haunch_first_side.depth_percentage = 20,
                      !.haunch_second_side.depth_value = depth_value \div 3,
                      !.haunch_second_side.depth_percentage = 20]
              ELSE h1
    IN  [thickness_properties |-> t1, height_properties |-> h2,
         depth_value |-> depth_value]

\* execute, for the thickness side with the shortest and the height side with
\* the longest length: "If percentage specified, compute length values"
PercentageLength(side, length) ==
    IF side.type = "percentage"
    THEN [side EXCEPT !.value = Times(length, side.percentage)]
    ELSE side

\* "Init values linked to shoulder size"
CenteredShoulder(side, length) ==
    IF side.centered
    THEN LET shoulder_value == (length - side.value) \div 2
         IN  [side EXCEPT !.shoulder_value = shoulder_value,
                          !.shoulder_percentage = Ratio(shoulder_value, length)]
    ELSE side

\* "If shoulder percentage specified, compute length values"
ShoulderPercentage(side, length) ==
    IF side.shoulder_type = "percentage"
    THEN LET shoulder_value == Times(length, side.shoulder_percentage)
         IN  IF shoulder_value + side.value > length
             THEN [side EXCEPT !.shoulder_value = shoulder_value,
                               !.value = length - shoulder_value,
                               !.percentage = Ratio(length - shoulder_value,
                                                    length)]
             ELSE [side EXCEPT !.shoulder_value = shoulder_value]
    ELSE side

SideLengths(side, length) ==
    ShoulderPercentage(CenteredShoulder(PercentageLength(side, length), length),
                       length)

\* a property group of the host is true where a condition reads it
HostTruth(property_group) == TRUE

\* execute, the depth of the two haunches
HaunchValues(properties) ==
    LET h == properties.height_properties
        first == IF HostTruth(h.haunch_first_side)
                    /\ h.haunch_first_side.type = "percentage"
                 THEN [h.haunch_first_side EXCEPT !.depth_value =
                          Times(properties.depth_value,
                                h.haunch_first_side.depth_percentage)]
                 ELSE h.haunch_first_side
        second == IF h.haunched_second_side
                     /\ h.haunch_second_side.type = "percentage"
                  THEN [h.haunch_second_side EXCEPT !.depth_value =
                           Times(properties.depth_value,
                                 h.haunch_second_side.depth_percentage)]
                  ELSE h.haunch_second_side
    IN  [properties EXCEPT !.height_properties.haunch_first_side = first,
                           !.height_properties.haunch_second_side = second]

\* the properties as execute leaves them before it checks them
ComputedProperties(face) ==
    LET d == InitDefaults(tenonProperties, face)
    IN  HaunchValues(
            [d EXCEPT
                !.thickness_properties =
                    SideLengths(@, face.shortest_length),
                !.height_properties =
                    SideLengths(@, face.longest_length)])

\* "Check input values" testing the length side only
InputCheck_height_only(properties, face) ==
    LET h == properties.height_properties
        total_length == h.shoulder_value + h.value
    IN  ~(/\ ~nearly_equal(total_length, face.longest_length)
          /\ total_length > face.longest_length)

\* execute, "Check input values": the length side, then the width side
InputCheck(properties, face) ==
    LET h == properties.height_properties
        t == properties.thickness_properties
        total_length == h.shoulder_value + h.value
        total_width == t.shoulder_value + t.value
    IN  IF /\ ~nearly_equal(total_length, face.longest_length)
           /\ total_length > face.longest_length
        THEN FALSE
        ELSE IF /\ ~nearly_equal(total_width, face.shortest_length)
                /\ total_width > face.shortest_length
        THEN FALSE
        ELSE TRUE

\* TenonOperator.execute(context)
execute ==
    /\ calls < MaxRuns
    /\ LET face == mesh.face
       IN  IF ~check_face(face)
           THEN /\ operator' = [operator EXCEPT !.returned = "CANCELLED"]
                /\ UNCHANGED <<tenonProperties, mesh>>
           ELSE LET properties == ComputedProperties(face)
                IN  /\ tenonProperties' = properties
                    /\ IF InputCheck(properties, face)
                       THEN /\ operator' =
                                 [shortest_length |-> face.shortest_length,
                                  longest_length |-> face.longest_length,
                                  returned |-> "FINISHED"]
                            /\ mesh' = [mesh EXCEPT !.tenons = @ + 1]
                       ELSE /\ operator' =
                                 [shortest_length |-> face.shortest_length,
                                  longest_length |-> face.longest_length,
                                  returned |-> "CANCELLED"]
                            /\ UNCHANGED mesh
    /\ calls' = calls + 1
    /\ UNCHANGED <<node, wrapper, last, prev, result, trees, builder, added>>

\* What the user has set in the panel before the operator runs.
Haunches ==
    [type : {"value", "percentage"}, depth_value : {10},
     depth_percentage : {30}]
ThicknessProperties ==
    [type : {"value", "percentage"}, value : {Unset, 20}, percentage : {20},
     centered : BOOLEAN, shoulder_type : {"value", "percentage"},
     shoulder_value : {41, 50}, shoulder_percentage : {50}]
HeightProperties ==
    [type : {"value"}, value : {80}, percentage : {40}, centered : {FALSE},
     shoulder_type : {"value"}, shoulder_value : {20, 41, 60},
     shoulder_percentage : {10},
     haunched_first_side : BOOLEAN, haunched_second_side : BOOLEAN,
     haunch_first_side : Haunches, haunch_second_side : Haunches]

\* The operator is new or has run on this face before; a face of the mesh,
\* or none, is active.
TenonInit ==
    /\ node = <<>>
    /\ wrapper = <<>>
    /\ last = NoCall
    /\ prev = NoCall
    /\ result = NoResult
    /\ calls = 0
    /\ trees = <<>>
    /\ builder = NoBuilder
    /\ added = <<>>
    /\ tenonProperties \in
          [thickness_properties : ThicknessProperties,
           height_properties : HeightProperties,
           depth_value : {Unset, 40}]
    /\ operator \in
          [shortest_length : {Unset}, longest_length : {Unset},
           returned : {"none"}]
          \cup [shortest_length : {60}, longest_length : {120},
                returned : {"none"}]
    /\ mesh \in [face : Faces, tenons : {0}]

TenonNext == execute

TenonSpec == TenonInit /\ [][TenonNext]_vars

\* ------------------------------------------------------------------ claims

SetMax(S) == CHOOSE m \in S : \A x \in S : x <= m
SetMin(S) == CHOOSE m \in S : \A x \in S : m <= x

ChildrenOf(F) == {wrapper[F].children[i] : i \in DOMAIN wrapper[F].children}

\* the bounding box of the children of F, with the margin of 30 on each side
BoxWidth(F) ==
    SetMax({node[c].location[1] + Width(c).v + Fix(30) : c \in ChildrenOf(F)})
    - SetMin({node[c].location[1] - Fix(30) : c \in ChildrenOf(F)})

BoxHeight(F) ==
    SetMax({node[c].location[2] + Fix(30) : c \in ChildrenOf(F)})
    - SetMin({node[c].location[2] - Height(c).v - Fix(30) : c \in ChildrenOf(F)})

\* C1: Frame.compute_width() returns the Frame's stored width when it has no
\* children, and otherwise the largest child.x + child.compute_width() + 30
\* minus the smallest child.x - 30 over its children.
C1_FrameWidth ==
    \A F \in Ids :
        (IsFrame(F) /\ Width(F).ok) =>
            Width(F).v = IF ChildrenOf(F) = {} THEN node[F].width
                         ELSE BoxWidth(F)

\* A Frame was asked for its width while it has two children at different x,
\* of different widths, and the box is not the stored width.
C1_Witness ==
    \E F \in Ids :
        /\ IsFrame(F) /\ result.node = F
        /\ result.width # node[F].width
        /\ \E a, b \in ChildrenOf(F) :
              /\ node[a].location[1] < node[b].location[1]
              /\ Width(a).v # Width(b).v

\* C2: Frame.compute_height() returns the Frame's stored height when it has
\* no children, and otherwise the largest child.y + 30 minus the smallest
\* child.y - child.compute_height() - 30 over its children, each child's
\* height being that child's own compute_height().
C2_FrameHeight ==
    \A F \in Ids :
        (IsFrame(F) /\ Height(F).ok) =>
            Height(F).v = IF ChildrenOf(F) = {} THEN node[F].height
                          ELSE BoxHeight(F)

\* A Frame was asked for its height while it holds a child Frame that itself
\* has a child, and another Frame's children lie at different y.
C2_Witness ==
    \E F \in Ids :
        /\ IsFrame(F) /\ result.node = F
        /\ result.height # node[F].height
        /\ \E G \in ChildrenOf(F) : IsFrame(G) /\ G # F /\ ChildrenOf(G) # {}

\* C3: set_position(Below(reference)) puts the node at (reference.x,
\* reference.y - reference.compute_height()), and with with_distance(extra)
\* at (reference.x, reference.y - reference.compute_height() - extra), the
\* reference's location and height being those at the moment of the call.
C3_Below ==
    [][\A n \in Ids, r \in Ids :
        (/\ calls' # calls
         /\ last'.op = "Below" /\ last'.node = n /\ last'.ref = r) =>
            /\ last'.dist \in {0} \cup Distances
            /\ node'[n].location =
                  <<node[r].location[1],
                    node[r].location[2] - Height(r).v - last'.dist>>]_vars

\* A node was placed below another node, with an extra distance, under a
\* reference whose height is not zero.
C3_Witness ==
    /\ last.op = "Below" /\ last.dist > 0 /\ last.ref # last.node
    /\ Height(last.ref).v # 0
    /\ node[last.node].location[2] < node[last.ref].location[2]

\* C4: set_position(OnTheRightSideOf(reference)) puts the node at
\* (reference.x + reference.compute_width(), reference.y), and with
\* with_distance(extra) at (reference.x + reference.compute_width() + extra,
\* reference.y), the reference's location and width being those at the
\* moment of the call.
C4_RightOf ==
    [][\A n \in Ids, r \in Ids :
        (/\ calls' # calls
         /\ last'.op = "OnTheRightSideOf" /\ last'.node = n /\ last'.ref = r) =>
            /\ last'.dist \in {0} \cup Distances
            /\ node'[n].location =
                  <<node[r].location[1] + Width(r).v + last'.dist,
                    node[r].location[2]>>]_vars

\* A node was placed on the right side of a Frame with children, with an
\* extra distance.
C4_Witness ==
    /\ last.op = "OnTheRightSideOf" /\ last.dist > 0 /\ last.ref # last.node
    /\ IsFrame(last.ref) /\ ChildrenOf(last.ref) # {}
    /\ node[last.node].location[1] > node[last.ref].location[1]

PositionCalls == {"set_location", "Location", "Below", "OnTheRightSideOf"}

\* C5: a node's location changes only in a set_location or set_position call
\* on that node: moving the reference it was placed against, adding children
\* to that reference or collapsing it leaves the resolved location as it is.
C5_OneShot ==
    [][\A n \in Ids :
        node'[n].location # node[n].location =>
            (last'.node = n /\ last'.op \in PositionCalls)]_vars

\* The location a position resolves to in the current state
Resolve(kind, r, dist) ==
    IF kind = "Below"
    THEN <<node[r].location[1], node[r].location[2] - Height(r).v - dist>>
    ELSE <<node[r].location[1] + Width(r).v + dist, node[r].location[2]>>

\* N was placed against R, then R was moved, given a child or collapsed, and
\* N stands where it was resolved, no longer where the position would
\* resolve now.
C5_Witness ==
    /\ prev.op \in {"Below", "OnTheRightSideOf"} /\ prev.ref # prev.node
    /\ \/ last.op \in PositionCalls /\ last.node = prev.ref
       \/ last.op = "set_parent" /\ last.ref = prev.ref /\ IsFrame(prev.ref)
             /\ last.node # prev.node
       \/ last.op = "hide" /\ last.node = prev.ref
    /\ Width(prev.ref).ok /\ Height(prev.ref).ok
    /\ node[prev.node].location # Resolve(prev.op, prev.ref, prev.dist)

\* C6: a size query of a Frame returns the bounding box of its children as
\* they are listed and placed in the state the query is made in.
C6_Derived ==
    \A F \in Ids :
        (IsFrame(F) /\ result.node = F) =>
            /\ result.width = IF ChildrenOf(F) = {} THEN node[F].width
                              ELSE BoxWidth(F)
            /\ result.height = IF ChildrenOf(F) = {} THEN node[F].height
                               ELSE BoxHeight(F)

\* A Frame was asked for its size right after one of its children moved, and
\* right after it was given a second child.
C6_Witness ==
    \E F \in Ids :
        /\ IsFrame(F) /\ result.node = F
        /\ last.op \in PositionCalls /\ last.node \in ChildrenOf(F)
        /\ prev.op = "set_parent" /\ prev.ref = F
        /\ Cardinality(ChildrenOf(F)) >= 2
        /\ result.width # node[F].width

\* the nodes a Frame contains, directly or through nested Frames
RECURSIVE Contained(_, _)
Contained(S, k) ==
    IF k = 0 THEN S
    ELSE Contained(S \cup UNION {ChildrenOf(c) : c \in S}, k - 1)
Inside(X) == Contained(ChildrenOf(X), Len(node))

RightOfThenBelow(A, B, C) ==
    /\ prev.op = "OnTheRightSideOf" /\ prev.node = B /\ prev.ref = A
    /\ last.op = "Below" /\ last.node = C /\ last.ref = B

Composed(A, B, C) ==
    /\ node[B].location[1] = node[A].location[1] + Width(A).v + prev.dist
    /\ node[C].location[2] = node[B].location[2] - Height(B).v - last.dist

C7_Result ==
    \A A \in Ids, B \in Ids, C \in Ids :
        (/\ A # B /\ B # C /\ A # C
         /\ RightOfThenBelow(A, B, C)
         /\ B \notin Inside(A)
         /\ C \notin Inside(A) \cup Inside(B)) =>
            Composed(A, B, C)

\* a create or a position call on U leaves the location and the computed
\* size of every node that is not U and does not contain U as they were
C7_Unrelated ==
    \A U \in 1..Len(node'), X \in Ids :
        (/\ last'.node = U
         /\ last'.op \in PositionCalls \cup {"create"}
         /\ calls' # calls
         /\ X # U /\ U \notin Inside(X)) =>
            /\ node'[X].location = node[X].location
            /\ Width(X)' = Width(X)
            /\ Height(X)' = Height(X)

C8_ParentChildren ==
    \A n \in Ids, F \in Ids :
        IsFrame(F) => (node[n].parent = F <=> n \in ChildrenOf(F))

RegisteredTags ==
    {"NodeFrame", "NodeReroute", "NodeGroupInput", "ShaderNodeGroup",
     "ShaderNodeTexCoord", "ShaderNodeObjectInfo", "ShaderNodeMixRGB",
     "ShaderNodeTexNoise", "ShaderNodeTexGradient", "ShaderNodeTexMusgrave",
     "ShaderNodeTexVoronoi", "ShaderNodeValToRGB", "ShaderNodeRGBCurve",
     "ShaderNodeMath", "ShaderNodeSeparateRGB", "ShaderNodeSeparateXYZ",
     "ShaderNodeCombineXYZ", "ShaderNodeValue"}

\* header, top padding when there are outputs, one row per visible output,
\* one row per visible input, closing padding: the height of a node in the
\* expanded state with no rows of its own; in the collapsed state, the
\* height of the collapsed branch
GenericHeight(n) ==
    LET b == node[n]
        y == b.location[2]
        top == IF Len(b.outputs) > 0 THEN y - Fix(20) - Fix(5) ELSE y - Fix(20)
        outs == SocketRows(top, b.outputs, 1) + 16
        ins == SocketRows(outs, b.inputs, 1) + 16
        closing == IF Len(b.inputs) > 0 \/ ~(b.show_preview \/ b.show_options)
                   THEN ins - Fix(5) ELSE ins
    IN  IF b.hide THEN y - HiddenDy(n) ELSE y - closing

\* C9: Node.create with a tag the registry does not list succeeds whenever a
\* node can be created, adds exactly one node to the tree and leaves the
\* others as they were, and the new node is a generic Node: no parameter
\* rows, its width the stored width, its height the generic-node height.
C9_Fallback ==
    [][\A t \in CreateTags \ RegisteredTags :
        /\ calls < MaxCalls => ENABLED Create(t)
        /\ \A new \in 1..(MaxCalls + 3) : (new = Len(node) + 1 /\ Create(t)) =>
              /\ Len(node') = new
              /\ \A n \in Ids : node'[n] = node[n] /\ wrapper'[n] = wrapper[n]
              /\ wrapper'[new].class = "Node"
              /\ compute_buttons_y_space(wrapper'[new].class) = 0
              /\ Width(new)' = Returned(node'[new].width)
              /\ Height(new)' = Returned(GenericHeight(new)')]_vars

\* A node of an unregistered tag was created and then placed: its height is
\* the generic height there too.
C9_Witness ==
    \E n \in Ids :
        /\ node[n].type \notin RegisteredTags
        /\ wrapper[n].class = "Node"
        /\ last.op = "create" /\ last.node = n
        /\ Height(n) = Returned(GenericHeight(n))

\* max(visible outputs, visible inputs) of n
Tot(n) == Max2(CountVisible(node[n].outputs, 1), CountVisible(node[n].inputs, 1))

\* C10: of two collapsed nodes with the same number of visible inputs, the
\* one whose max(visible outputs, visible inputs) is larger and above 4
\* reports the strictly greater compute_height().
C10_CollapsedMonotonic ==
    \A a \in Ids, b \in Ids :
        (/\ ~IsFrame(a) /\ ~IsFrame(b)
         /\ node[a].hide /\ node[b].hide
         /\ CountVisible(node[a].inputs, 1) = CountVisible(node[b].inputs, 1)
         /\ Tot(a) > Tot(b) /\ Tot(a) > 4) =>
            Height(a).v > Height(b).v

\* the collapsed height for tot visible sockets on the fuller side: one value
\* up to 4, and a step of 5 for each socket above 4
CollapsedHeight(tot) ==
    IF tot > 4 THEN -Fix(5) - Fix(5) * (tot - 4) ELSE -Fix(5)

\* C11: the compute_height() of a collapsed node is a function of tot =
\* max(visible outputs, visible inputs) alone: the same for every tot <= 4
\* and a step of 5 per unit of tot above 4, whatever the variant, parameter
\* rows, preview and options flags, hidden sockets and location.
C11_CollapsedOnlyTot ==
    \A n \in Ids :
        node[n].hide =>
            /\ Height(n) = Returned(CollapsedHeight(Tot(n)))
            /\ result.node = n => result.height = CollapsedHeight(Tot(n))

\* A collapsed ColorRamp above the x axis, with options shown, a hidden
\* output and more than 4 visible outputs, was asked for its height.
C11_Witness ==
    \E n \in Ids :
        /\ node[n].hide /\ result.node = n
        /\ wrapper[n].class = "ColorRamp"
        /\ node[n].show_options
        /\ node[n].location[2] > 0
        /\ ~NoneHidden(node[n].outputs)
        /\ Tot(n) > 4

\* the number of visible sockets of n, outputs and inputs
VisibleSockets(n) ==
    CountVisible(node[n].outputs, 1) + CountVisible(node[n].inputs, 1)

\* the top padding: a quarter of the widget unit when n has an output socket
TopPadding(n) == IF Len(node[n].outputs) > 0 THEN Fix(5) ELSE 0

\* the closing padding: a quarter of the widget unit, left out when n has no
\* input socket and shows its preview or its options
ClosingPadding(n) ==
    IF Len(node[n].inputs) = 0 /\ (node[n].show_preview \/ node[n].show_options)
    THEN 0 ELSE Fix(5)

\* the parameter rows of n's variant with the padding above and below them
ButtonsPart(n) ==
    LET buttons_y_space == compute_buttons_y_space(wrapper[n].class)
    IN  IF buttons_y_space > 0
        THEN buttons_y_space + 2 * (node_dys \div 2) ELSE 0

\* what the expanded height holds besides the socket rows: the header, the
\* top padding, the parameter rows, the closing padding
OtherParts(n) == node_dy + TopPadding(n) + ButtonsPart(n) + ClosingPadding(n)

\* C12: the expanded compute_height() holds one row of one fixed size for
\* each visible output and input socket and nothing for a hidden one: the
\* sockets' share of the height is the row size times the number of visible
\* sockets, which is zero when no socket is visible.
C12_SocketRows ==
    \A n \in Ids :
        ~node[n].hide =>
            \E row \in 1..(2 * node_dy) :
                Height(n).v = OtherParts(n) + row * VisibleSockets(n)

\* an expanded node without visible sockets is as high as its other parts,
\* less the socket spacing the code takes back after each socket list
C13_Paddings ==
    \A n \in Ids :
        (~node[n].hide /\ VisibleSockets(n) = 0) =>
            Height(n).v = OtherParts(n) - 2 * node_sockdy

\* the code's steps from top to bottom, with the two paddings as stated
C13_Composed ==
    \A n \in Ids :
        ~node[n].hide =>
            LET top == node[n].location[2] - node_dy - TopPadding(n)
                outputs == SocketRows(top, node[n].outputs, 1) + node_sockdy
                buttons == outputs - ButtonsPart(n)
                inputs == SocketRows(buttons, node[n].inputs, 1) + node_sockdy
            IN  Height(n).v =
                    node[n].location[2] - (inputs - ClosingPadding(n))

\* showing or removing the preview or the options of an expanded node changes
\* its height by the closing padding that comes or goes
C13_ClosingStep ==
    \A n \in Ids :
        (/\ ~node[n].hide
         /\ n \in DOMAIN node'
         /\ node'[n] = [node[n] EXCEPT
                            !.show_preview = node'[n].show_preview,
                            !.show_options = node'[n].show_options]) =>
            Height(n)'.v - Height(n).v
                = ClosingPadding(n)' - ClosingPadding(n)

\* C13: in the expanded state the closing padding of 5 is part of
\* compute_height() in every case but that of a node without input sockets
\* that shows its preview or its options, and the top padding of 5 is part of
\* it exactly when the node has an output socket.
C13_HalfRows ==
    /\ [](C13_Paddings /\ C13_Composed)
    /\ [][C13_ClosingStep]_vars

\* A node with an output socket and no input socket, none visible, showing
\* its preview, was asked for its height: the top padding is in, the closing
\* padding is not.
C13_Witness ==
    \E n \in Ids :
        /\ ~node[n].hide /\ result.node = n
        /\ Len(node[n].outputs) > 0 /\ Len(node[n].inputs) = 0
        /\ VisibleSockets(n) = 0
        /\ node[n].show_preview
        /\ result.height = node_dy + Fix(5) + ButtonsPart(n) - 2 * node_sockdy

\* C14: the predicted size of a node that is not a Frame is a function of its
\* shape alone: moving the node, with its variant, collapsed flag, socket
\* visibility, preview and options flags and parameter rows as they are,
\* leaves compute_width() and compute_height() as they were.
C14_ShapeOnly ==
    [][\A n \in Ids :
        (/\ ~IsFrame(n)
         /\ n \in DOMAIN node'
         /\ wrapper'[n] = wrapper[n]
         /\ node'[n] = [node[n] EXCEPT !.location = node'[n].location]) =>
            /\ Width(n)' = Width(n)
            /\ Height(n)' = Height(n)]_vars

\* C16: for a child c1 of Frame F that is not a Frame, the location that
\* OnTheRightSideOf(c1) with distance d resolves to is the same before and
\* after a further child is added to F, c1's own location and size being
\* unchanged.
C16_FrameGrowth ==
    [][\A F \in Ids, c1 \in Ids, d \in {0} \cup Distances :
        (/\ IsFrame(F) /\ ~IsFrame(c1) /\ c1 \in ChildrenOf(F)
         /\ calls' # calls
         /\ last'.op = "set_parent" /\ last'.ref = F /\ last'.node # c1
         /\ node'[c1].location = node[c1].location
         /\ Width(c1)' = Width(c1)) =>
            LET before ==
                    set_node_position(with_distance(OnTheRightSideOf(c1), d))
                after ==
                    set_node_position(with_distance(OnTheRightSideOf(c1), d))'
            IN  /\ before.ok /\ after.ok
                /\ after.v = before.v]_vars

\* A node created after the Frame's children were placed was added to the
\* Frame, left of its child c1: the Frame holds three children.
C16_Witness ==
    \E F \in Ids, c1 \in Ids :
        /\ IsFrame(F) /\ ~IsFrame(c1) /\ c1 \in ChildrenOf(F)
        /\ last.op = "set_parent" /\ last.ref = F /\ last.node # c1
        /\ prev.op = "create" /\ prev.node = last.node
        /\ Cardinality(ChildrenOf(F)) >= 3
        /\ node[last.node].location[1] < node[c1].location[1]
        /\ set_node_position(with_distance(OnTheRightSideOf(c1), Fix(50))).ok

\* C17: link(output_socket, input_socket) on a graph with sockets of nodes
\* that are not both members of that graph fails with an error and records
\* no edge; with sockets of nodes of the graph it records exactly the edge
\* from the output to the input.
C17_InvalidLinkFails ==
    [][\A t \in TreeIds, a \in OutputSockets, b \in InputSockets :
        (\E host \in HostLinks : link(t, a, b, host)) =>
            IF SameGraph(t, a, b)
            THEN /\ last'.op = "link"
                 /\ trees' = [trees EXCEPT ![t].links = @ \cup {<<a, b>>}]
            ELSE /\ last'.op = "link_raised"
                 /\ trees' = trees]_vars

\* no two declarations of the list share a name
UniqueNames(declared) ==
    \A i \in DOMAIN declared, j \in DOMAIN declared :
        declared[i].name = declared[j].name => i = j

\* the list after a step is the list before it, with what was declared since
\* at its end
KeptInOrder(before, after) ==
    /\ Len(before) <= Len(after)
    /\ \A i \in DOMAIN before : after[i] = before[i]

\* C18: after any sequence of set_input and set_output calls on a Group, two
\* calls with the same name included, no two declared inputs share a name, no
\* two declared outputs share a name, and the declarations stand in the order
\* of the calls.
C18_UniqueNames ==
    /\ [](\A g \in GroupIds :
            UniqueNames(trees[g].inputs) /\ UniqueNames(trees[g].outputs))
    /\ [][\A g \in GroupIds :
            /\ KeptInOrder(trees[g].inputs, trees'[g].inputs)
            /\ KeptInOrder(trees[g].outputs, trees'[g].outputs)]_vars

\* the group nodes
GroupNodes == {n \in Ids : wrapper[n].class = "GroupNode"}

\* the tree a node was created in
TreeOf(n) == CHOOSE t \in TreeIds : n \in trees[t].nodes

\* group node n shows exactly the declarations of group g: a socket for each
\* declared input and output, in order, found under its name with its default
Exposes(n, g) ==
    /\ Len(node[n].inputs) = Len(trees[g].inputs)
    /\ Len(node[n].outputs) = Len(trees[g].outputs)
    /\ \A i \in DOMAIN trees[g].inputs :
          LET socket == get_input(n, trees[g].inputs[i].name)
          IN  /\ socket.ok
              /\ HostInputs(n)[socket.v.index].name = trees[g].inputs[i].name
              /\ HostInputs(n)[i] = trees[g].inputs[i]
    /\ \A i \in DOMAIN trees[g].outputs :
          LET socket == get_output(n, trees[g].outputs[i].name)
          IN  /\ socket.ok
              /\ HostOutputs(n)[socket.v.index].name = trees[g].outputs[i].name
              /\ HostOutputs(n)[i] = trees[g].outputs[i]
    /\ \A d \in Declarations :
          /\ get_input(n, d.name).ok =>
                \E i \in DOMAIN trees[g].inputs : trees[g].inputs[i].name = d.name
          /\ get_output(n, d.name).ok =>
                \E i \in DOMAIN trees[g].outputs : trees[g].outputs[i].name = d.name

\* a group node shows nothing before a tree is assigned to it and the
\* declarations of its tree after; a link into each declared input and out of
\* each declared output, from or to a socket of a node of the same graph, can
\* be made
C19_Exposed ==
    \A n \in GroupNodes :
        IF node[n].node_tree = 0
        THEN /\ node[n].inputs = <<>> /\ node[n].outputs = <<>>
             /\ \A d \in Declarations :
                   ~get_input(n, d.name).ok /\ ~get_output(n, d.name).ok
        ELSE /\ Exposes(n, node[n].node_tree)
             /\ calls < MaxCalls =>
                  /\ \A i \in DOMAIN HostInputs(n), a \in OutputSockets :
                        a.node \in trees[TreeOf(n)].nodes \ {n} =>
                            ENABLED link(TreeOf(n), a,
                                get_input(n, HostInputs(n)[i].name).v, "linked")
                  /\ \A i \in DOMAIN HostOutputs(n), b \in InputSockets :
                        b.node \in trees[TreeOf(n)].nodes \ {n} =>
                            ENABLED link(TreeOf(n),
                                get_output(n, HostOutputs(n)[i].name).v, b,
                                "linked")

\* set_input and set_output declare what they are called with, at the end of
\* the inputs and of the outputs; set_node_tree changes no declaration; a link
\* between sockets of one graph returns and records its edge
C19_Calls ==
    /\ \A g \in GroupIds, d \in Declarations, v \in DefaultValues :
          /\ set_input(g, d.name, d.type, v) =>
                /\ trees'[g].inputs =
                      Append(trees[g].inputs, Declared(d.name, d.type, v))
                /\ trees'[g].outputs = trees[g].outputs
          /\ set_output(g, d.name, d.type, v) =>
                /\ trees'[g].outputs =
                      Append(trees[g].outputs, Declared(d.name, d.type, v))
                /\ trees'[g].inputs = trees[g].inputs
    /\ \A n \in GroupNodes, g \in GroupIds :
          set_node_tree(n, g) => trees' = trees /\ node'[n].node_tree = g
    /\ \A t \in TreeIds, a \in OutputSockets, b \in InputSockets :
          (SameGraph(t, a, b) /\ link(t, a, b, "linked")) =>
              /\ last'.op = "link"
              /\ <<a, b>> \in trees'[t].links

C20_CyclesRejected ==
    \A n \in Ids :
        /\ IsFrame(n) => n \notin Inside(n)
        /\ Width(n).ok /\ Height(n).ok


\* the number of Frames on the longest chain of Frames from n down through
\* the children lists, n included (0 when n is no Frame)
RECURSIVE FrameNesting(_, _)
FrameNesting(n, fuel) ==
    IF fuel = 0 \/ ~IsFrame(n) THEN 0
    ELSE 1 + SetMax({0} \cup {FrameNesting(c, fuel - 1) : c \in ChildrenOf(n)})

NestingDepth(n) == FrameNesting(n, Len(node))

\* no Frame at or below F is inside itself
Acyclic(F) == \A m \in {F} \cup Inside(F) : m \notin Inside(m)

Factories ==
    {"Frame", "Reroute", "GroupNode", "GroupInput", "GroupOutput", "MixRGB",
     "NoiseTexture", "GradientTexture", "MusgraveTexture", "VoronoiTexture",
     "ColorRamp", "RGBCurve", "Math", "SeparateRGB", "SeparateXYZ",
     "CombineXYZ", "Value"}

create_tag(class) ==
    CASE class = "Frame" -> "NodeFrame"
      [] class = "Reroute" -> "NodeReroute"
      [] class = "GroupNode" -> "ShaderNodeGroup"
      [] class = "GroupInput" -> "NodeGroupInput"
      [] class = "GroupOutput" -> "NodeGroupOutput"
      [] class = "MixRGB" -> "ShaderNodeMixRGB"
      [] class = "NoiseTexture" -> "ShaderNodeTexNoise"
      [] class = "GradientTexture" -> "ShaderNodeTexGradient"
      [] class = "MusgraveTexture" -> "ShaderNodeTexMusgrave"
      [] class = "VoronoiTexture" -> "ShaderNodeTexVoronoi"
      [] class = "ColorRamp" -> "ShaderNodeValToRGB"
      [] class = "RGBCurve" -> "ShaderNodeRGBCurve"
      [] class = "Math" -> "ShaderNodeMath"
      [] class = "SeparateRGB" -> "ShaderNodeSeparateRGB"
      [] class = "SeparateXYZ" -> "ShaderNodeSeparateXYZ"
      [] class = "CombineXYZ" -> "ShaderNodeCombineXYZ"
      [] class = "Value" -> "ShaderNodeValue"

\* C22: for every variant class X with a create(tree) factory, the wrapper
\* X.create(tree) returns is an instance of X: the registry maps the tag the
\* factory passes to X, so every node created with that tag is wrapped as X.
C22_FactoryReturnsOwnClass ==
    \A X \in Factories : \A n \in Ids :
        node[n].type = create_tag(X) =>
            /\ node_type_to_class(create_tag(X)) = X
            /\ wrapper[n].class = X


\* C23: in the expanded state a variant whose compute_buttons_y_space() is
\* s > 0 reports a compute_height() exactly s + 10 above that of a generic
\* node with the same sockets, flags and location (5 before and 5 after the
\* rows), and a variant with s = 0 reports the generic height.
C23_ButtonsContribution ==
    \A n \in Ids :
        (~IsFrame(n) /\ ~node[n].hide) =>
            LET s == compute_buttons_y_space(wrapper[n].class)
            IN  Height(n).v =
                    GenericHeight(n) + (IF s > 0 THEN s + Fix(10) ELSE 0)


\* the Frames a call of the builder made so far positioned a node against
UsedFrames ==
    {Script[i].ref : i \in {j \in 1..calls :
        /\ Script[j].op = "set_position"
        /\ Script[j].kind \in {"Below", "OnTheRightSideOf"}
        /\ IsFrame(Script[j].ref)}}

\* C24: in WoodPatternBartek.build, Rays.build and Rays.create_angle_group,
\* once a node has been positioned Below or OnTheRightSideOf a Frame, no
\* later call of the builder gives that Frame a child or moves one of its
\* children: the Frame's children, their locations and its computed width and
\* height stay what they were at the placement until the builder returns.
C24_FramesCompleteWhenUsed ==
    [][\A F \in UsedFrames :
          /\ wrapper'[F].children = wrapper[F].children
          /\ \A c \in ChildrenOf(F) : node'[c].location = node[c].location
          /\ Width(F)' = Width(F)
          /\ Height(F)' = Height(F)]_vars

\* WoodPatternBartek.build has returned; its last call put the group output
\* on the right of the Frame of the rings, which holds its five children.
C24_Witness ==
    /\ builder = "WoodPatternBartek.build" /\ calls = Len(Script)
    /\ last.op = "OnTheRightSideOf" /\ IsFrame(last.ref)
    /\ Len(wrapper[last.ref].children) = 5
    /\ Cardinality(UsedFrames) = 3


\* C25: a set_position call changes the location of the node it is made on
\* and nothing else: every other node (the reference among them) keeps its
\* location and all its fields, no node is added, the children lists of the
\* Frames and the links of the trees stay as they were.  A size query
\* (compute_width, compute_height, and compute_buttons_y_space inside it)
\* changes no node, no children list and no link.
C25_OnlyLocation ==
    [][/\ (calls' # calls /\ last'.op \in {"Below", "OnTheRightSideOf", "Location"}) =>
            /\ Len(node') = Len(node)
            /\ \A m \in Ids : m # last'.node => node'[m] = node[m]
            /\ node'[last'.node] =
                  [node[last'.node] EXCEPT
                      !.location = node'[last'.node].location]
            /\ wrapper' = wrapper
            /\ trees' = trees
       /\ (result' # result /\ result'.node # 0) =>
            /\ node' = node /\ wrapper' = wrapper /\ trees' = trees
            /\ calls' = calls /\ last' = last]_vars

\* the ramp of the textures frame was put below its Frame and moved there;
\* the Frame holds its children and the tree its link
C25_Witness ==
    /\ last.op = "Below" /\ last.node = 3 /\ last.ref = 1
    /\ IsFrame(1) /\ wrapper[1].children = <<2, 3>>
    /\ node[3].location # TexturesNodes[3].location
    /\ node[1].location = TexturesNodes[1].location
    /\ trees = TexturesTrees


\* the first child of F stands where the builders put it, at (50, 0)
FirstChildAtOrigin(F) ==
    /\ Len(wrapper[F].children) > 0
    /\ node[wrapper[F].children[1]].location = <<Fix(50), 0>>

C27_HeightLowerBound ==
    \A n \in Ids :
        ~IsFrame(n) =>
            /\ Height(n).v > 0
            /\ ~node[n].hide => Height(n).v >= Fix(20)
            /\ (/\ ~node[n].hide
                /\ Len(node[n].outputs) = 0 /\ Len(node[n].inputs) = 0
                /\ compute_buttons_y_space(wrapper[n].class) = 0) =>
                  Height(n).v = IF node[n].show_preview \/ node[n].show_options
                                THEN Fix(20) ELSE Fix(25)


\* how many times e stands in the sequence
Count(seq, e) == Cardinality({i \in DOMAIN seq : seq[i] = e})

\* C28: after k >= 1 add_stop calls on a new ColorRamp the host ramp holds
\* exactly k stops, each (position, color) as often as it was passed to
\* add_stop and nothing else (so nothing of the two default stops), and
\* stop_index is k.
C28_StopsAreTheAdded ==
    \A n \in Ids :
        Len(added) >= 1 =>
            LET elements == node[n].color_ramp.elements
            IN  /\ Len(elements) = Len(added)
                /\ \A i \in DOMAIN added :
                      Count(elements, added[i]) = Count(added, added[i])
                /\ wrapper[n].stop_index = Len(added)

\* three stops were added out of order, the last of them before the first:
\* the ramp holds three stops
C28_Witness ==
    /\ Len(added) = 3
    /\ added[1].position = 1000 /\ added[2].position = 456
    /\ added[3].position = 0 /\ added[3].color = <<1, 1, 1, 1>>
    /\ Len(node[1].color_ramp.elements) = 3
    /\ wrapper[1].stop_index = 3


\* shoulder and tenon together are no longer than the face, up to the
\* tolerance of nearly_equal
Fits(side, length) == side.shoulder_value + side.value <= length + 1

\* C29: execute returns {'FINISHED'} and has the builder make the tenon on
\* the mesh exactly when the active face passes the face check and, on the
\* length side and on the width side, shoulder_value + value as execute
\* computed them is within the face's longest and shortest length up to the
\* tolerance; in every other case it returns {'CANCELLED'} and the mesh is as
\* it was.
C29_FinishedOnlyWhenValid ==
    [][calls' # calls =>
        LET face == mesh.face
            valid == /\ check_face(face)
                     /\ Fits(tenonProperties'.height_properties,
                             face.longest_length)
                     /\ Fits(tenonProperties'.thickness_properties,
                             face.shortest_length)
        IN  /\ operator'.returned = IF valid THEN "FINISHED" ELSE "CANCELLED"
            /\ mesh'.tenons = IF valid THEN mesh.tenons + 1 ELSE mesh.tenons
            /\ mesh'.face = mesh.face]_vars

\* the operator finished with the width side one unit over the face's
\* shortest length, inside the tolerance, and built one tenon
C29_Witness ==
    /\ operator.returned = "FINISHED"
    /\ mesh.tenons = 1
    /\ check_face(mesh.face)
    /\ tenonProperties.thickness_properties.shoulder_value
          + tenonProperties.thickness_properties.value
       = mesh.face.shortest_length + 1

\* C30: in a run of execute that does not start the depths over, the
\* depth_value of a side's haunch becomes depth_value * depth_percentage
\* when that side's haunch is enabled and its type is "percentage", and is
\* left as it was otherwise, on the first side as on the second.
C30_HaunchOnlyWhenEnabled ==
    [][(/\ calls' # calls
        /\ check_face(mesh.face)
        /\ tenonProperties.depth_value # Unset
        /\ nearly_equal(mesh.face.longest_length, operator.longest_length)) =>
          LET h == tenonProperties.height_properties
              after == tenonProperties'.height_properties
              depth_value == tenonProperties'.depth_value
          IN  /\ after.haunch_first_side.depth_value =
                    IF /\ h.haunched_first_side
                       /\ h.haunch_first_side.type = "percentage"
                    THEN Times(depth_value,
                               h.haunch_first_side.depth_percentage)
                    ELSE h.haunch_first_side.depth_value
              /\ after.haunch_second_side.depth_value =
                    IF /\ h.haunched_second_side
                       /\ h.haunch_second_side.type = "percentage"
                    THEN Times(depth_value,
                               h.haunch_second_side.depth_percentage)
                    ELSE h.haunch_second_side.depth_value]_vars

====
